---- MODULE Spec2Model ----
(***************************************************************************)
(* Model of interrupt::dynamic_controller<RootT>                           *)
(* (include/interrupt/dynamic_controller.hpp): the resource-gated          *)
(* interrupt-enable controller.  Masks are kept as integers of RegWidth    *)
(* bits and combined with bitwise operators, as the code does.             *)
(***************************************************************************)
EXTENDS Integers, Sequences, FiniteSets, TLC

\* ------------------------------------------------------------------ bounds
\* width in bits of RegType::DataType of the modelled registers
RegWidth == 3
\* longest FieldsToSet... pack given to enable_by_field
MaxFields == 2
\* largest CallbacksToFind... pack given to enable / disable
MaxCallbacks == 2

\* --------------------------------------------------------- bit arithmetic
RECURSIVE Pow2(_)
Pow2(n) == IF n = 0 THEN 1 ELSE 2 * Pow2(n - 1)

\* std::numeric_limits<DataType>::max()
MaxVal == Pow2(RegWidth) - 1

DataType == 0 .. MaxVal

RECURSIVE BitAnd(_, _)
BitAnd(a, b) ==
    IF a = 0 \/ b = 0 THEN 0
    ELSE (a % 2) * (b % 2) + 2 * BitAnd(a \div 2, b \div 2)

RECURSIVE BitOr(_, _)
BitOr(a, b) ==
    IF a = 0 THEN b
    ELSE IF b = 0 THEN a
    ELSE (IF a % 2 = 1 \/ b % 2 = 1 THEN 1 ELSE 0)
         + 2 * BitOr(a \div 2, b \div 2)

\* ~m truncated to DataType
BitNot(m) == MaxVal - m

\* ------------------------------------------------- the configuration RootT
Registers == {"R0", "R1", "R2"}
Resources == {"A", "B"}
Callbacks == {"cbX", "cbY", "cbZ", "cbT", "cbNone"}

\* every enable field firmware can name: its register and its mask.
\* FN is a field of R1 that belongs to no interrupt of the table.
Field ==
    [ FX |-> [reg |-> "R1", mask |-> 1],
      FY |-> [reg |-> "R1", mask |-> 2],
      FN |-> [reg |-> "R1", mask |-> 4],
      FZ |-> [reg |-> "R2", mask |-> 3],
      FU |-> [reg |-> "R0", mask |-> 1] ]

FieldNames == DOMAIN Field

\* RootT::all_irqs: the interrupt table, in declaration order.
\* has_enable_field is FALSE for an interrupt without enable_field.
all_irqs ==
    << [name |-> "X", has_enable_field |-> TRUE,  enable_field |-> "FX",
        resources |-> <<"A">>,      callback |-> "cbX"],
       [name |-> "Y", has_enable_field |-> TRUE,  enable_field |-> "FY",
        resources |-> <<>>,         callback |-> "cbY"],
       [name |-> "T", has_enable_field |-> FALSE, enable_field |-> "FX",
        resources |-> <<"B">>,      callback |-> "cbT"],
       [name |-> "Z", has_enable_field |-> TRUE,  enable_field |-> "FZ",
        resources |-> <<"A", "B">>, callback |-> "cbZ"],
       [name |-> "U", has_enable_field |-> TRUE,  enable_field |-> "FU",
        resources |-> <<>>,         callback |-> "cbX"] >>

\* --------------------------------------------------------- tuple helpers
Range(s) == {s[i] : i \in DOMAIN s}

\* stdx::contains_type<Tuple, T>
contains_type(tuple, t) == t \in Range(tuple)

\* stdx::filter<Pred>(tuple), keeping the order
filter(Pred(_), tuple) == SelectSeq(tuple, Pred)

\* stdx::transform(f, tuple)
transform(f(_), tuple) == [i \in DOMAIN tuple |-> f(tuple[i])]

\* tuple.fold_left(init, op)
fold_left(tuple, init, op(_, _)) ==
    LET acc[i \in 0 .. Len(tuple)] ==
            IF i = 0 THEN init ELSE op(acc[i - 1], tuple[i])
    IN  acc[Len(tuple)]

\* field.get_register(); a register is its own register
get_register(x) == IF x \in FieldNames THEN Field[x].reg ELSE x

get_mask(f) == Field[f].mask

\* ------------------------------------------------------ derived tables
\* doesnt_require_resource looking only at the first resource of Irq
doesnt_require_first_resource(ResourceType, Irq) ==
    /\ Irq.has_enable_field
    /\ ~(Len(Irq.resources) > 0 /\ Irq.resources[1] = ResourceType)

\* doesnt_require_resource that leaves out the interrupts without resources
doesnt_require_resource_of_dependants(ResourceType, Irq) ==
    /\ Irq.has_enable_field
    /\ Len(Irq.resources) > 0
    /\ ~contains_type(Irq.resources, ResourceType)

\* doesnt_require_resource<ResourceType>::fn<Irq>
doesnt_require_resource(ResourceType, Irq) ==
    Irq.has_enable_field /\ ~contains_type(Irq.resources, ResourceType)

\* in_register<RegType>::fn<Field>
in_register(RegType, f) == Field[f].reg = RegType

\* irqs_allowed without the in_register filter: the fields of every
\* register are folded into the mask
irqs_allowed_any_register(ResourceType, RegType) ==
    LET matching_irqs ==
            filter(LAMBDA irq : doesnt_require_resource(ResourceType, irq),
                   all_irqs)
        interrupt_enables_tuple ==
            transform(LAMBDA irq : irq.enable_field, matching_irqs)
    IN  fold_left(interrupt_enables_tuple, 0,
                  LAMBDA value, f : BitOr(value, get_mask(f)))

\* irqs_allowed that also leaves allowed the bits of RegType that are the
\* enable field of no interrupt of the table
irqs_allowed_keeping_unowned_bits(ResourceType, RegType) ==
    LET enables ==
            transform(LAMBDA irq : irq.enable_field,
                      filter(LAMBDA irq : irq.has_enable_field, all_irqs))
        owned ==
            fold_left(filter(LAMBDA f : in_register(RegType, f), enables), 0,
                      LAMBDA value, f : BitOr(value, get_mask(f)))
        matching ==
            transform(LAMBDA irq : irq.enable_field,
                      filter(LAMBDA irq :
                                 doesnt_require_resource(ResourceType, irq),
                             all_irqs))
    IN  fold_left(filter(LAMBDA f : in_register(RegType, f), matching),
                  MaxVal - owned,
                  LAMBDA value, f : BitOr(value, get_mask(f)))

\* irqs_allowed<ResourceType, RegType>: the bits of RegType that may stay
\* enabled while ResourceType is off
irqs_allowed(ResourceType, RegType) ==
    LET matching_irqs ==
            filter(LAMBDA irq : doesnt_require_resource(ResourceType, irq),
                   all_irqs)
        interrupt_enables_tuple ==
            transform(LAMBDA irq : irq.enable_field, matching_irqs)
        fields_in_reg ==
            filter(LAMBDA f : in_register(RegType, f),
                   interrupt_enables_tuple)
    IN  fold_left(fields_in_reg, 0,
                  LAMBDA value, f : BitOr(value, get_mask(f)))

\* get_unique_regs without the reg_has_been_seen_already test
get_regs_with_repeats(fields) ==
    fold_left(fields, <<>>,
              LAMBDA regs, f : regs \o <<get_register(f)>>)

\* get_unique_regs(fields): the registers of the fields, first occurrence
\* of each, in order
get_unique_regs(fields) ==
    fold_left(fields, <<>>,
              LAMBDA regs, f :
                  IF contains_type(regs, get_register(f))
                  THEN regs
                  ELSE regs \o <<get_register(f)>>)

\* all_resources: every resource mentioned in the interrupt table
all_resources ==
    fold_left(all_irqs, <<>>,
              LAMBDA resources, irq :
                  resources \o
                  filter(LAMBDA r : ~contains_type(resources, r),
                         irq.resources))

\* all_resource_affected_regs without the depends_on_resources condition
all_regs_with_enable_field ==
    get_unique_regs(
        fold_left(all_irqs, <<>>,
                  LAMBDA registers, irq :
                      IF irq.has_enable_field
                      THEN registers \o <<get_register(irq.enable_field)>>
                      ELSE registers))

\* all_resource_affected_regs: every register holding the enable field of
\* an interrupt that depends on at least one resource
all_resource_affected_regs ==
    get_unique_regs(
        fold_left(all_irqs, <<>>,
                  LAMBDA registers, irq :
                      IF irq.has_enable_field /\ Len(irq.resources) > 0
                      THEN registers \o <<get_register(irq.enable_field)>>
                      ELSE registers))

\* ------------------------------------------------------------------ state
VARIABLES
    is_resource_on,    \* is_resource_on<ResourceType>
    allowed_enables,   \* allowed_enables<RegType>
    dynamic_enables,   \* dynamic_enables<RegType>
    hw,                \* per register, the value last written to it by
                       \* apply(write(...)); empty before the first write
    writes,            \* the register writes issued by the last call, in order
    last_call,         \* the control-surface call that completed last:
                       \* its operation, and either its resource, its
                       \* status and the status the resource had before
                       \* the call, or its template argument en
    pc,                \* per execution context, the statement it is at
    frame,             \* per execution context, the template arguments
                       \* and locals of the call it is in
    cs_owner,          \* the context inside call_in_critical_section
    serial,            \* the controller state the calls that have entered
                       \* the critical section leave when run one at a
                       \* time, in their order of entry
    handler            \* msg::indexed_handler: its index, the message it
                       \* was last given and what it did with it

\* the controller and its registers
controller_vars ==
    <<is_resource_on, allowed_enables, dynamic_enables, hw>>

\* the execution contexts that call the controller
context_vars == <<pc, frame, cs_owner, serial>>

vars == <<is_resource_on, allowed_enables, dynamic_enables, hw, writes,
          last_call, pc, frame, cs_owner, serial, handler>>

\* resource_status
resource_status == {"OFF", "ON"}

\* the packs FieldsToSet... that are tried
FieldPacks ==
    UNION {[1 .. n -> FieldNames] : n \in 0 .. MaxFields}

\* the packs CallbacksToFind... that are tried
CallbackPacks ==
    {cbs \in SUBSET Callbacks : Cardinality(cbs) <= MaxCallbacks}

NoCall ==
    [op |-> "none", resource |-> "", status |-> "", before |-> "",
     en |-> FALSE]

\* the execution contexts: thread level and interrupt level
Contexts == {"main", "isr"}

NoFrame ==
    [op |-> "none", en |-> FALSE, resource |-> "", status |-> "",
     fields |-> <<>>, regs |-> <<>>, i |-> 0, final_enables |-> 0]

\* the static initializers of the controller, no context in a call
ControllerInit ==
    /\ is_resource_on = [r \in Resources |-> TRUE]
    /\ allowed_enables = [reg \in Registers |-> MaxVal]
    /\ dynamic_enables = [reg \in Registers |-> 0]
    /\ hw = [reg \in Registers |-> {}]
    /\ writes = <<>>
    /\ last_call = NoCall
    /\ pc = [c \in Contexts |-> "idle"]
    /\ frame = [c \in Contexts |-> NoFrame]
    /\ cs_owner = "none"
    /\ serial = [is_resource_on |-> [r \in Resources |-> TRUE],
                 allowed_enables |-> [reg \in Registers |-> MaxVal],
                 dynamic_enables |-> [reg \in Registers |-> 0],
                 hw |-> [reg \in Registers |-> {}]]

\* no message handler is looked at
NoHandler == [index |-> <<>>, msg |-> <<>>, op |-> "none",
              invoked |-> <<>>, errors |-> 0, match |-> FALSE]

Init ==
    /\ ControllerInit
    /\ handler = NoHandler

\* ------------------------------------------------------------- internals
\* recalculate_allowed_enables without its first loop: the masks are not
\* reset to all-ones before the resources that are off are applied
recalculate_without_reset(on, allowed) ==
    fold_left(all_resources, allowed,
              LAMBDA al, resource :
                  IF ~on[resource]
                  THEN fold_left(all_resource_affected_regs, al,
                           LAMBDA a, reg :
                               [a EXCEPT ![reg] =
                                   BitAnd(a[reg],
                                          irqs_allowed(resource, reg))])
                  ELSE al)

\* recalculate_allowed_enables(): the new allowed_enables, given the
\* resource states
recalculate_allowed_enables(on, allowed) ==
    LET reset ==
            fold_left(all_resource_affected_regs, allowed,
                      LAMBDA al, reg : [al EXCEPT ![reg] = MaxVal])
    IN  fold_left(all_resources, reset,
                  LAMBDA al, resource :
                      IF ~on[resource]
                      THEN fold_left(all_resource_affected_regs, al,
                               LAMBDA a, reg :
                                   [a EXCEPT ![reg] =
                                       BitAnd(a[reg],
                                              irqs_allowed(resource, reg))])
                      ELSE al)

\* reprogram_interrupt_enables writing dynamic_enables unmasked
reprogram_requested_only(regs, allowed, dynamic) ==
    transform(LAMBDA reg : [reg |-> reg, value |-> dynamic[reg]], regs)

\* reprogram_interrupt_enables writing allowed_enables alone
reprogram_allowed_only(regs, allowed, dynamic) ==
    transform(LAMBDA reg : [reg |-> reg, value |-> allowed[reg]], regs)

\* reprogram_interrupt_enables(regs): the writes it issues, in order
reprogram_interrupt_enables(regs, allowed, dynamic) ==
    transform(LAMBDA reg :
                  [reg |-> reg,
                   value |-> BitAnd(allowed[reg], dynamic[reg])],
              regs)

\* the registers after the writes ws have been applied
apply(ws, h) ==
    fold_left(ws, h, LAMBDA g, w : [g EXCEPT ![w.reg] = {w.value}])

\* the loop of enable_by_field with ^= in place of |= and &= ~
set_dynamic_enables_toggle(en, fields, dynamic) ==
    fold_left(fields, dynamic,
              LAMBDA d, f :
                  [d EXCEPT ![get_register(f)] =
                      BitOr(@, get_mask(f)) - BitAnd(@, get_mask(f))])

\* the loop of enable_by_field over the fields: the new dynamic_enables
set_dynamic_enables(en, fields, dynamic) ==
    fold_left(fields, dynamic,
              LAMBDA d, f :
                  [d EXCEPT ![get_register(f)] =
                      IF en THEN BitOr(@, get_mask(f))
                      ELSE BitAnd(@, BitNot(get_mask(f)))])

\* match_callback<Callbacks...>::fn<Irq>
match_callback(cbs, Irq) ==
    Irq.has_enable_field /\ Irq.callback \in cbs

\* enable_by_name resolving only the first interrupt that matches
fields_of_first_match(cbs) ==
    LET matching_irqs ==
            filter(LAMBDA irq : match_callback(cbs, irq), all_irqs)
    IN  IF matching_irqs = <<>> THEN <<>>
        ELSE <<Head(matching_irqs).enable_field>>

\* the fields enable_by_name hands to enable_by_field
fields_by_name(cbs) ==
    transform(LAMBDA irq : irq.enable_field,
              filter(LAMBDA irq : match_callback(cbs, irq), all_irqs))

\* the body of enable_by_field reprogramming all_resource_affected_regs
\* in place of the registers of its fields
enable_by_field_body_reprogramming_affected(en, fields, allowed, dynamic, h) ==
    LET dyn == set_dynamic_enables(en, fields, dynamic)
        ws == reprogram_interrupt_enables(all_resource_affected_regs,
                                          allowed, dyn)
    IN  [dynamic_enables |-> dyn, writes |-> ws, hw |-> apply(ws, h)]

\* the body of enable_by_field inside the critical section, run with the
\* masks allowed and dynamic and the registers h: the masks and registers
\* it leaves and the writes it issues
enable_by_field_body(en, fields, allowed, dynamic, h) ==
    LET dyn == set_dynamic_enables(en, fields, dynamic)
        unique_regs == get_unique_regs(fields)
        ws == reprogram_interrupt_enables(unique_regs, allowed, dyn)
    IN  [dynamic_enables |-> dyn, writes |-> ws, hw |-> apply(ws, h)]

\* enable_by_field<en, FieldsToSet...>() as a step
enable_by_field_call(en, fields) ==
    \E r \in {enable_by_field_body(en, fields, allowed_enables,
                                  dynamic_enables, hw)} :
        /\ dynamic_enables' = r.dynamic_enables
        /\ writes' = r.writes
        /\ hw' = r.hw
        /\ UNCHANGED <<is_resource_on, allowed_enables>>
        /\ UNCHANGED <<context_vars, handler>>

\* the body of update_resource inside the critical section, run with the
\* resource states on, the masks allowed and dynamic and the registers h:
\* the states, masks and registers it leaves and the writes it issues
update_resource_body(ResourceType, status, on, allowed, dynamic, h) ==
    LET on2 == [on EXCEPT ![ResourceType] = (status = "ON")]
        al == recalculate_allowed_enables(on2, allowed)
        ws == reprogram_interrupt_enables(all_resource_affected_regs, al,
                                          dynamic)
    IN  [is_resource_on |-> on2, allowed_enables |-> al, writes |-> ws,
         hw |-> apply(ws, h)]

\* ------------------------------------------------------- control surface
\* update_resource without its call of reprogram_interrupt_enables
update_resource_without_reprogram(ResourceType, status) ==
    LET on == [is_resource_on EXCEPT ![ResourceType] = (status = "ON")]
    IN  /\ is_resource_on' = on
        /\ allowed_enables' = recalculate_allowed_enables(on, allowed_enables)
        /\ writes' = <<>>
        /\ UNCHANGED <<hw, dynamic_enables>>
        /\ UNCHANGED <<context_vars, handler>>
        /\ last_call' =
               [NoCall EXCEPT !.op = "update_resource",
                              !.resource = ResourceType,
                              !.status = status,
                              !.before = IF is_resource_on[ResourceType]
                                         THEN "ON" ELSE "OFF"]

\* update_resource that also drops the masked bits from dynamic_enables
update_resource_forgetting_requests(ResourceType, status) ==
    LET on == [is_resource_on EXCEPT ![ResourceType] = (status = "ON")]
        al == recalculate_allowed_enables(on, allowed_enables)
        dyn == [reg \in Registers |->
                   BitAnd(al[reg], dynamic_enables[reg])]
        ws == reprogram_interrupt_enables(all_resource_affected_regs, al, dyn)
    IN  /\ is_resource_on' = on
        /\ allowed_enables' = al
        /\ dynamic_enables' = dyn
        /\ writes' = ws
        /\ hw' = apply(ws, hw)
        /\ UNCHANGED <<context_vars, handler>>
        /\ last_call' =
               [NoCall EXCEPT !.op = "update_resource",
                              !.resource = ResourceType,
                              !.status = status,
                              !.before = IF is_resource_on[ResourceType]
                                         THEN "ON" ELSE "OFF"]

\* update_resource<ResourceType>(status) as a step
update_resource(ResourceType, status) ==
    \E r \in {update_resource_body(ResourceType, status, is_resource_on,
                                    allowed_enables, dynamic_enables, hw)} :
        /\ is_resource_on' = r.is_resource_on
        /\ allowed_enables' = r.allowed_enables
        /\ writes' = r.writes
        /\ hw' = r.hw
        /\ UNCHANGED dynamic_enables
        /\ UNCHANGED <<context_vars, handler>>
        /\ last_call' =
               [NoCall EXCEPT !.op = "update_resource",
                              !.resource = ResourceType,
                              !.status = status,
                              !.before = IF is_resource_on[ResourceType]
                                         THEN "ON" ELSE "OFF"]

turn_on_resource ==
    \E ResourceType \in Resources : update_resource(ResourceType, "ON")

turn_off_resource ==
    \E ResourceType \in Resources : update_resource(ResourceType, "OFF")

enable_by_field ==
    \E en \in BOOLEAN, FieldsToSet \in FieldPacks :
        /\ enable_by_field_call(en, FieldsToSet)
        /\ last_call' = [NoCall EXCEPT !.op = "enable_by_field", !.en = en]

enable_by_name(en, CallbacksToFind) ==
    /\ enable_by_field_call(en, fields_by_name(CallbacksToFind))
    /\ last_call' = [NoCall EXCEPT !.op = "enable_by_name", !.en = en]

enable ==
    \E CallbacksToFind \in CallbackPacks : enable_by_name(TRUE, CallbacksToFind)

disable ==
    \E CallbacksToFind \in CallbackPacks : enable_by_name(FALSE, CallbacksToFind)

Next ==
    \/ turn_on_resource
    \/ turn_off_resource
    \/ enable_by_field
    \/ enable
    \/ disable

Spec == Init /\ [][Next]_vars

TypeOK ==
    /\ is_resource_on \in [Resources -> BOOLEAN]
    /\ allowed_enables \in [Registers -> DataType]
    /\ dynamic_enables \in [Registers -> DataType]
    /\ \A reg \in Registers :
           hw[reg] \subseteq DataType /\ Cardinality(hw[reg]) <= 1
    /\ \A i \in DOMAIN writes :
           writes[i].reg \in Registers /\ writes[i].value \in DataType

\* ------------------------------------------------------ vocabulary of the
\* properties, stated on the interrupt table itself
Irqs == Range(all_irqs)

\* the interrupts that have an enable field
EnableIrqs == {irq \in Irqs : irq.has_enable_field}

IrqReg(irq) == Field[irq.enable_field].reg
IrqMask(irq) == Field[irq.enable_field].mask

\* the resources an interrupt depends on
IrqResources(irq) == Range(irq.resources)

\* a register holding an enable field of an interrupt that depends on a
\* resource
AffectedRegisters ==
    {IrqReg(irq) : irq \in {i \in EnableIrqs : IrqResources(i) # {}}}

\* some resource the interrupt depends on is off
SomeResourceOff(irq) == \E r \in IrqResources(irq) : ~is_resource_on[r]

\* the bits of mask m in the value last written to reg are all 0 / all 1
HwWritten(reg) == hw[reg] # {}
HwClear(reg, m) == \A v \in hw[reg] : BitAnd(v, m) = 0
HwSet(reg, m) == \A v \in hw[reg] : BitAnd(v, m) = m

IsUpdate(call, r, status) ==
    call.op = "update_resource" /\ call.resource = r /\ call.status = status

IsEnable(call, en) ==
    call.op \in {"enable_by_field", "enable_by_name"} /\ call.en = en

\* the last call wrote value v to register reg
Wrote(reg, v) == \E i \in DOMAIN writes : writes[i] = [reg |-> reg, value |-> v]

\* ----------------------------------------------------------------- claims

\* C1 (mask composition): after every update_resource and enable_by_field
\* call, the value last written to each affected register R is
\* allowed_enables[R] & dynamic_enables[R]; update_resource writes every
\* affected register.
C1_MaskComposition ==
    \A R \in AffectedRegisters :
        /\ hw[R] \subseteq {BitAnd(allowed_enables[R], dynamic_enables[R])}
        /\ last_call.op = "update_resource" => HwWritten(R)

\* a register whose request is partly masked: X and Y requested, A off
C1_Witness ==
    /\ ~is_resource_on["A"]
    /\ dynamic_enables["R1"] = 3
    /\ allowed_enables["R1"] = 2
    /\ hw["R1"] = {2}
    /\ IsEnable(last_call, TRUE)
    /\ Wrote("R1", 2)

\* C2 (resource gating): while a resource is off, after every call, the
\* hardware enable bits of every interrupt that depends on it are 0,
\* whatever firmware has requested.
C2_ResourceGating ==
    \A irq \in EnableIrqs :
        SomeResourceOff(irq) =>
            HwWritten(IrqReg(irq)) /\ HwClear(IrqReg(irq), IrqMask(irq))

\* an enable of X alone, issued while A is off, wrote R1 with X's bit at 0
C2_Witness ==
    /\ ~is_resource_on["A"]
    /\ IsEnable(last_call, TRUE)
    /\ dynamic_enables["R1"] = 1
    /\ Wrote("R1", 0)

\* C3 (invariant I3): in every state, for every interrupt with an enable
\* field, the allowed_enables bits of the field are 0 if some resource the
\* interrupt depends on is off and 1 otherwise.
C3_AllowedIffResourcesOn ==
    \A irq \in EnableIrqs :
        BitAnd(allowed_enables[IrqReg(irq)], IrqMask(irq)) =
            IF SomeResourceOff(irq) THEN 0 ELSE IrqMask(irq)

\* B was turned back on while A is off: Z stays masked, X too, Y is allowed
C3_Witness ==
    /\ IsUpdate(last_call, "B", "ON")
    /\ last_call.before = "OFF"
    /\ ~is_resource_on["A"]
    /\ BitAnd(allowed_enables["R2"], 3) = 0
    /\ BitAnd(allowed_enables["R1"], 3) = 2

\* the allowed_enables bits of the interrupt's field
AllowedBits(irq) == BitAnd(allowed_enables[IrqReg(irq)], IrqMask(irq))

\* the dynamic_enables bits of the interrupt's field
RequestedBits(irq) == BitAnd(dynamic_enables[IrqReg(irq)], IrqMask(irq))

\* C4 as claimed (automatic restore): turning a resource off clears the
\* allowed_enables bits of every interrupt depending on it; turning it back
\* on sets them again and, where the field is still requested, the call
\* writes the field's hardware bits as 1.
C4_RestoreUnconditional ==
    \A irq \in EnableIrqs : \A r \in IrqResources(irq) :
        /\ IsUpdate(last_call, r, "OFF") => AllowedBits(irq) = 0
        /\ (IsUpdate(last_call, r, "ON") /\ last_call.before = "OFF") =>
              /\ AllowedBits(irq) = IrqMask(irq)
              /\ RequestedBits(irq) = IrqMask(irq) =>
                     /\ HwWritten(IrqReg(irq))
                     /\ HwSet(IrqReg(irq), IrqMask(irq))

\* C4 as amended: turning a resource off clears the allowed_enables bits of
\* every interrupt depending on it; turning it back on sets them again
\* provided every other resource the interrupt depends on is on, and then,
\* where the field is still requested, the call writes the field's hardware
\* bits as 1.
C4_RestoreWhenAllOn ==
    \A irq \in EnableIrqs : \A r \in IrqResources(irq) :
        /\ IsUpdate(last_call, r, "OFF") => AllowedBits(irq) = 0
        /\ (/\ IsUpdate(last_call, r, "ON")
            /\ last_call.before = "OFF"
            /\ \A o \in IrqResources(irq) \ {r} : is_resource_on[o]) =>
              /\ AllowedBits(irq) = IrqMask(irq)
              /\ RequestedBits(irq) = IrqMask(irq) =>
                     /\ HwWritten(IrqReg(irq))
                     /\ HwSet(IrqReg(irq), IrqMask(irq))

\* A was turned back on with B on and Z still requested: the call wrote
\* Z's bits as 1
C4_Witness ==
    /\ IsUpdate(last_call, "A", "ON")
    /\ last_call.before = "OFF"
    /\ is_resource_on["B"]
    /\ dynamic_enables["R2"] = 3
    /\ Wrote("R2", 3)

\* C5 (requested persistence): the value last written to a register never
\* has a bit set that is not set in its dynamic_enables; in particular after
\* every update_resource call a field whose requested bits are 0 has its
\* hardware bits at 0.
C5_RequestedPersistence ==
    /\ \A R \in Registers : \A v \in hw[R] : BitAnd(v, dynamic_enables[R]) = v
    /\ \A f \in FieldNames :
          (/\ last_call.op = "update_resource"
           /\ BitAnd(dynamic_enables[Field[f].reg], Field[f].mask) = 0) =>
              /\ HwClear(Field[f].reg, Field[f].mask)
              /\ Field[f].reg \in AffectedRegisters => HwWritten(Field[f].reg)

\* A was turned off and on again while only Y was requested: X's bit is
\* allowed again and was written as 0
C5_Witness ==
    /\ IsUpdate(last_call, "A", "ON")
    /\ last_call.before = "OFF"
    /\ dynamic_enables["R1"] = 2
    /\ allowed_enables["R1"] = MaxVal
    /\ Wrote("R1", 2)

\* C6 (multi-resource AND): the allowed_enables bits of an interrupt that
\* depends on two or more resources are 1 exactly when all of them are on
\* and 0 as soon as one is off, also right after another one was turned
\* back on.
C6_MultiResourceAnd ==
    \A irq \in EnableIrqs :
        Cardinality(IrqResources(irq)) >= 2 =>
            /\ AllowedBits(irq) = IrqMask(irq) <=>
                   \A r \in IrqResources(irq) : is_resource_on[r]
            /\ \A r \in IrqResources(irq) :
                   ~is_resource_on[r] => AllowedBits(irq) = 0

\* A was turned back on while B is off: the requested Z stays masked
C6_Witness ==
    /\ IsUpdate(last_call, "A", "ON")
    /\ last_call.before = "OFF"
    /\ ~is_resource_on["B"]
    /\ dynamic_enables["R2"] = 3
    /\ BitAnd(allowed_enables["R2"], 3) = 0
    /\ Wrote("R2", 0)

\* C7 (resource independence): the allowed_enables bits of an interrupt
\* with an enable field and no resources are 1 in every state.
C7_ResourceIndependence ==
    \A irq \in EnableIrqs :
        IrqResources(irq) = {} => AllowedBits(irq) = IrqMask(irq)

\* every resource is off: in R1 the bit of X is masked, that of Y is not
C7_Witness ==
    /\ last_call.op = "update_resource"
    /\ \A r \in Resources : ~is_resource_on[r]
    /\ allowed_enables["R1"] = 2
    /\ allowed_enables["R0"] = MaxVal

\* C8 (idempotence): from every reachable state and for every pack F,
\* enable_by_field<true, F...> run twice in a row leaves the same
\* dynamic_enables and register values as run once.
C8_Idempotence ==
    \A F \in FieldPacks :
        \A once \in {enable_by_field_body(TRUE, F, allowed_enables,
                                            dynamic_enables, hw)} :
            \A twice \in {enable_by_field_body(TRUE, F, allowed_enables,
                                                once.dynamic_enables,
                                                once.hw)} :
                /\ twice.dynamic_enables = once.dynamic_enables
                /\ twice.hw = once.hw

\* the state left by enable_by_field<true, F...> for a pack F of two
\* different fields, with A off, which a second call of it leaves as it is
C8_Witness ==
    /\ last_call.op = "enable_by_field"
    /\ last_call.en
    /\ ~is_resource_on["A"]
    /\ \E F \in FieldPacks :
          /\ Len(F) = 2
          /\ F[1] # F[2]
          /\ LET again == enable_by_field_body(TRUE, F, allowed_enables,
                                               dynamic_enables, hw)
             IN  /\ again.writes = writes
                 /\ again.dynamic_enables = dynamic_enables
                 /\ again.hw = hw

\* the registers outside the affected set
UnaffectedRegisters == Registers \ AffectedRegisters

C9_UnaffectedState ==
    \A R \in UnaffectedRegisters :
        /\ allowed_enables[R] = MaxVal
        /\ hw[R] \subseteq {dynamic_enables[R]}
        /\ last_call.op = "update_resource" =>
               \A i \in DOMAIN writes : writes[i].reg # R

C9_UnaffectedFrame ==
    last_call'.op = "update_resource" =>
        \A R \in UnaffectedRegisters :
            allowed_enables'[R] = allowed_enables[R] /\ hw'[R] = hw[R]

\* C9 (invariant I2): for a register outside the affected set,
\* allowed_enables stays all-ones, no update_resource call changes its mask
\* or writes it, and the value last written to it is its dynamic_enables.
C9_UnaffectedRegisters ==
    []C9_UnaffectedState /\ [][C9_UnaffectedFrame]_vars

\* U was enabled and then A turned off: R0 keeps its value and its mask
C9_Witness ==
    /\ IsUpdate(last_call, "A", "OFF")
    /\ last_call.before = "ON"
    /\ dynamic_enables["R0"] = 1
    /\ hw["R0"] = {1}
    /\ allowed_enables["R0"] = MaxVal
    /\ writes # <<>>

C10_Frame ==
    /\ (allowed_enables' # allowed_enables \/ is_resource_on' # is_resource_on)
           => last_call'.op = "update_resource"
    /\ dynamic_enables' # dynamic_enables
           => last_call'.op \in {"enable_by_field", "enable_by_name"}
    /\ last_call'.op = "update_resource"
           => dynamic_enables' = dynamic_enables
    /\ last_call'.op \in {"enable_by_field", "enable_by_name"}
           => /\ allowed_enables' = allowed_enables
              /\ is_resource_on' = is_resource_on

\* C10 (single writer per store): only update_resource steps change
\* allowed_enables or is_resource_on, and they leave dynamic_enables as it
\* is; only enable_by_field steps, direct or by name, change
\* dynamic_enables, and they leave allowed_enables and is_resource_on as
\* they are.
C10_SingleWriter == [][C10_Frame]_vars

\* B was turned off while X and Y were requested: the request is kept
C10_Witness ==
    /\ IsUpdate(last_call, "B", "OFF")
    /\ last_call.before = "ON"
    /\ ~is_resource_on["A"]
    /\ dynamic_enables["R1"] = 3
    /\ dynamic_enables["R2"] = 3
    /\ allowed_enables["R2"] = 0
    /\ hw["R2"] = {0}

\* bit b of the value v
Bit(v, b) == (v \div Pow2(b)) % 2

BitPositions == 0 .. RegWidth - 1

\* the number of writes to register R among the writes ws
WriteCount(ws, R) == Cardinality({i \in DOMAIN ws : ws[i].reg = R})

\* the result of enable_by_field<en, fields...> called in the current state
EnableResult(en, fields) ==
    enable_by_field_body(en, fields, allowed_enables, dynamic_enables, hw)

\* the enable fields of the interrupts whose callback is among cbs
FieldsNamed(cbs) ==
    {irq.enable_field : irq \in {i \in EnableIrqs : i.callback \in cbs}}

C13_NoMatchState ==
    \A en \in BOOLEAN, cbs \in CallbackPacks :
        FieldsNamed(cbs) = {} =>
            \A r \in {EnableResult(en, fields_by_name(cbs))} :
                /\ r.dynamic_enables = dynamic_enables
                /\ r.hw = hw
                /\ r.writes = <<>>

C13_NoMatchFrame ==
    (last_call'.op = "enable_by_name" /\ writes' = <<>>) =>
        UNCHANGED <<is_resource_on, allowed_enables, dynamic_enables, hw>>

\* C13 (no match is a no-op): in every reachable state, enable or disable
\* with callbacks that match no interrupt with an enable field leaves
\* dynamic_enables and every register as they are and writes nothing, and
\* a by-name step that writes nothing changes no mask, no resource state
\* and no register.
C13_NoMatchNoOp == []C13_NoMatchState /\ [][C13_NoMatchFrame]_vars

\* a by-name call that wrote nothing, made while X and Y are requested
\* and A is off
C13_Witness ==
    /\ last_call.op = "enable_by_name"
    /\ writes = <<>>
    /\ ~is_resource_on["A"]
    /\ dynamic_enables["R1"] = 3
    /\ hw["R1"] = {2}

\* C14 (name resolution): in every reachable state, the fields enable or
\* disable hand to enable_by_field are the enable fields of the interrupts
\* that have one and whose callback is named; the call sets (clears) the
\* bits of exactly these fields in dynamic_enables, and writes exactly
\* their registers.
C14_NameResolution ==
    \A en \in BOOLEAN, cbs \in CallbackPacks :
        \A E \in {FieldsNamed(cbs)},
           r \in {EnableResult(en, fields_by_name(cbs))} :
            /\ Range(fields_by_name(cbs)) = E
            /\ \A R \in Registers, b \in BitPositions :
                   Bit(r.dynamic_enables[R], b) =
                       IF \E f \in E : /\ Field[f].reg = R
                                       /\ Bit(Field[f].mask, b) = 1
                       THEN (IF en THEN 1 ELSE 0)
                       ELSE Bit(dynamic_enables[R], b)
            /\ \A R \in Registers :
                   r.hw[R] =
                       IF \E f \in E : Field[f].reg = R
                       THEN {BitAnd(allowed_enables[R], r.dynamic_enables[R])}
                       ELSE hw[R]

\* enable<cbX> after nothing else was requested: X and U are enabled, R1
\* and R0 written, in the order of the table
C14_Witness ==
    /\ last_call.op = "enable_by_name"
    /\ last_call.en
    /\ dynamic_enables = [R0 |-> 1, R1 |-> 1, R2 |-> 0]
    /\ writes = << [reg |-> "R1", value |-> 1], [reg |-> "R0", value |-> 1] >>

\* C15 (write set): in every reachable state enable_by_field writes once
\* each register that owns one of its fields and no other register, and
\* every update_resource call has written once each affected register and
\* no other register.
C15_WriteSet ==
    /\ \A en \in BOOLEAN, F \in FieldPacks :
          \A ws \in {EnableResult(en, F).writes},
             owners \in {{Field[F[i]].reg : i \in DOMAIN F}} :
              \A R \in Registers :
                  WriteCount(ws, R) = IF R \in owners THEN 1 ELSE 0
    /\ last_call.op = "update_resource" =>
          \A R \in Registers :
              WriteCount(writes, R) =
                  IF R \in AffectedRegisters THEN 1 ELSE 0

\* turn_on_resource<A> while A is on: both affected registers are written
C15_Witness ==
    /\ IsUpdate(last_call, "A", "ON")
    /\ last_call.before = "ON"
    /\ dynamic_enables["R1"] = 3
    /\ writes = << [reg |-> "R1", value |-> 3], [reg |-> "R2", value |-> 0] >>

\* the resources the interrupts of the table depend on
TableResources == UNION {IrqResources(irq) : irq \in Irqs}

\* bit b of register R is in the enable field of an interrupt of the table
OwnedBit(R, b) ==
    \E irq \in EnableIrqs : IrqReg(irq) = R /\ Bit(IrqMask(irq), b) = 1

\* C19 (bits outside the table): for every bit of an affected register
\* that is the enable field of no interrupt of the table, while some
\* resource of the table is off the allowed_enables bit and the bit last
\* written are 0, and while all are on the allowed_enables bit is 1 and the
\* bit last written is the requested one.
C19_UnownedBitsGated ==
    \A R \in AffectedRegisters, b \in BitPositions :
        ~OwnedBit(R, b) =>
            IF \E r \in TableResources : ~is_resource_on[r]
            THEN /\ Bit(allowed_enables[R], b) = 0
                 /\ \A v \in hw[R] : Bit(v, b) = 0
            ELSE /\ Bit(allowed_enables[R], b) = 1
                 /\ \A v \in hw[R] : Bit(v, b) = Bit(dynamic_enables[R], b)

\* FN alone is requested while only B is off, which no interrupt of R1
\* depends on: the enable wrote R1 as 0
C19_Witness ==
    /\ is_resource_on["A"]
    /\ ~is_resource_on["B"]
    /\ IsEnable(last_call, TRUE)
    /\ dynamic_enables["R1"] = 4
    /\ Wrote("R1", 0)

\* ------------------------------------ the calls, statement by statement
\* the statements of a call that run inside call_in_critical_section
BodyPcs ==
    {"set_state", "reset", "mask", "request", "compute", "write", "exit"}

\* the shared objects the statement at p reads or writes
Accesses(p) ==
    CASE p = "set_state" -> {"is_resource_on"}
      [] p = "reset" -> {"allowed_enables"}
      [] p = "mask" -> {"is_resource_on", "allowed_enables"}
      [] p = "request" -> {"dynamic_enables"}
      [] p = "compute" -> {"allowed_enables", "dynamic_enables"}
      [] p = "write" -> {"register"}
      [] OTHER -> {}

\* the packs a context names when it calls enable_by_field itself
DirectPacks == {<<f>> : f \in FieldNames}

\* the first loop of recalculate_allowed_enables
reset_allowed_enables(allowed) ==
    fold_left(all_resource_affected_regs, allowed,
              LAMBDA al, reg : [al EXCEPT ![reg] = MaxVal])

\* one turn of the second loop of recalculate_allowed_enables
mask_allowed_enables(resource, on, allowed) ==
    IF ~on[resource]
    THEN fold_left(all_resource_affected_regs, allowed,
             LAMBDA a, reg :
                 [a EXCEPT ![reg] =
                     BitAnd(a[reg], irqs_allowed(resource, reg))])
    ELSE allowed

\* the statement that follows a loop over a tuple of registers
after_regs(regs, i) == IF i <= Len(regs) THEN "compute" ELSE "exit"

\* the call completes in the order of the calls that entered before it
serialize(r) ==
    serial' = [is_resource_on |-> r.is_resource_on,
               allowed_enables |-> r.allowed_enables,
               dynamic_enables |-> r.dynamic_enables,
               hw |-> r.hw]

\* the lambda of update_resource<ResourceType>(status) starts
begin_update_resource(c) ==
    \E ResourceType \in Resources, status \in resource_status :
        /\ pc' = [pc EXCEPT ![c] = "set_state"]
        /\ frame' = [frame EXCEPT ![c] =
                         [NoFrame EXCEPT !.op = "update_resource",
                                         !.resource = ResourceType,
                                         !.status = status]]
        /\ \E r \in {update_resource_body(
                         ResourceType, status, serial.is_resource_on,
                         serial.allowed_enables, serial.dynamic_enables,
                         serial.hw)} :
               serialize([r EXCEPT !.writes = <<>>]
                         @@ [dynamic_enables |-> serial.dynamic_enables])

\* the lambda of enable_by_field<en, fields...>() starts
begin_enable_by_field(c, en, fields) ==
    /\ pc' = [pc EXCEPT ![c] = IF fields = <<>> THEN "exit" ELSE "request"]
    /\ frame' = [frame EXCEPT ![c] =
                     [NoFrame EXCEPT !.op = "enable_by_field", !.en = en,
                                     !.fields = fields, !.i = 1]]
    /\ \E r \in {enable_by_field_body(en, fields, serial.allowed_enables,
                                      serial.dynamic_enables, serial.hw)} :
           serialize([r EXCEPT !.writes = <<>>]
                     @@ [is_resource_on |-> serial.is_resource_on,
                         allowed_enables |-> serial.allowed_enables])

\* update_resource called without call_in_critical_section
call_update_resource_unprotected(c) ==
    /\ pc[c] = "idle"
    /\ begin_update_resource(c)
    /\ UNCHANGED <<controller_vars, writes, last_call, cs_owner, handler>>

\* turn_on_resource / turn_off_resource is called: update_resource hands
\* its body to call_in_critical_section
call_update_resource(c) ==
    /\ pc[c] = "idle"
    /\ pc' = [pc EXCEPT ![c] = "enter"]
    /\ frame' = [frame EXCEPT ![c] =
                     [NoFrame EXCEPT !.op = "update_resource"]]
    /\ UNCHANGED <<controller_vars, writes, last_call, cs_owner, serial,
                   handler>>

\* enable_by_field called without call_in_critical_section
call_enable_by_field_unprotected(c) ==
    /\ pc[c] = "idle"
    /\ \E en \in BOOLEAN, FieldsToSet \in DirectPacks :
           begin_enable_by_field(c, en, FieldsToSet)
    /\ UNCHANGED <<controller_vars, writes, last_call, cs_owner, handler>>

\* enable_by_field is called: it hands its body to
\* call_in_critical_section
call_enable_by_field(c) ==
    /\ pc[c] = "idle"
    /\ pc' = [pc EXCEPT ![c] = "enter"]
    /\ frame' = [frame EXCEPT ![c] =
                     [NoFrame EXCEPT !.op = "enable_by_field"]]
    /\ UNCHANGED <<controller_vars, writes, last_call, cs_owner, serial,
                   handler>>

\* enable / disable is called: enable_by_name starts
call_enable_by_name(c) ==
    /\ pc[c] = "idle"
    /\ pc' = [pc EXCEPT ![c] = "lookup"]
    /\ frame' = [frame EXCEPT ![c] =
                     [NoFrame EXCEPT !.op = "enable_by_name"]]
    /\ UNCHANGED <<controller_vars, writes, last_call, cs_owner, serial,
                   handler>>

\* enable_by_name updating the requests of the fields it found itself
lookup_and_request(c) ==
    /\ pc[c] = "lookup"
    /\ \E en \in BOOLEAN, CallbacksToFind \in CallbackPacks :
           begin_enable_by_field(c, en, fields_by_name(CallbacksToFind))
    /\ UNCHANGED <<controller_vars, writes, last_call, cs_owner, handler>>

\* enable_by_name entering the critical section for its lookup, before
\* it calls enable_by_field
lookup_in_critical_section(c) ==
    /\ pc[c] = "lookup"
    /\ cs_owner = "none"
    /\ cs_owner' = c
    /\ \E en \in BOOLEAN, CallbacksToFind \in CallbackPacks :
           frame' = [frame EXCEPT ![c].en = en,
                                  ![c].fields =
                                      fields_by_name(CallbacksToFind)]
    /\ pc' = [pc EXCEPT ![c] = "enter"]
    /\ UNCHANGED <<controller_vars, writes, last_call, serial, handler>>

\* enable_by_name<en, CallbacksToFind...>() finds the matching interrupts
\* and calls enable_by_field with their fields
lookup(c) ==
    /\ pc[c] = "lookup"
    /\ \E en \in BOOLEAN, CallbacksToFind \in CallbackPacks :
           frame' = [frame EXCEPT ![c].en = en,
                                  ![c].fields =
                                      fields_by_name(CallbacksToFind)]
    /\ pc' = [pc EXCEPT ![c] = "enter"]
    /\ UNCHANGED <<controller_vars, writes, last_call, cs_owner, serial,
                   handler>>

\* conc::call_in_critical_section<dynamic_controller> runs the body it
\* was handed once no other context is in one
enter(c) ==
    /\ pc[c] = "enter"
    /\ cs_owner = "none"
    /\ cs_owner' = c
    /\ \/ /\ frame[c].op = "update_resource"
          /\ begin_update_resource(c)
       \/ /\ frame[c].op = "enable_by_field"
          /\ \E en \in BOOLEAN, FieldsToSet \in DirectPacks :
                 begin_enable_by_field(c, en, FieldsToSet)
       \/ /\ frame[c].op = "enable_by_name"
          /\ begin_enable_by_field(c, frame[c].en, frame[c].fields)
    /\ UNCHANGED <<controller_vars, writes, last_call, handler>>

\* is_resource_on<ResourceType> = (status == resource_status::ON)
set_state(c) ==
    /\ pc[c] = "set_state"
    /\ is_resource_on' =
           [is_resource_on EXCEPT ![frame[c].resource] =
                                      (frame[c].status = "ON")]
    /\ pc' = [pc EXCEPT ![c] = "reset"]
    /\ UNCHANGED <<allowed_enables, dynamic_enables, hw, writes, last_call,
                   frame, cs_owner, serial, handler>>

\* the reset loop of recalculate_allowed_enables, going on to reprogram
\* the registers at once
reset_then_reprogram(c) ==
    /\ pc[c] = "reset"
    /\ allowed_enables' = reset_allowed_enables(allowed_enables)
    /\ pc' = [pc EXCEPT ![c] = after_regs(all_resource_affected_regs, 1)]
    /\ frame' = [frame EXCEPT ![c].regs = all_resource_affected_regs,
                              ![c].i = 1]
    /\ UNCHANGED <<is_resource_on, dynamic_enables, hw, writes, last_call,
                   cs_owner, serial, handler>>

\* recalculate_allowed_enables: every affected register is set to
\* all-ones
reset(c) ==
    /\ pc[c] = "reset"
    /\ allowed_enables' = reset_allowed_enables(allowed_enables)
    /\ \/ /\ all_resources # <<>>
          /\ pc' = [pc EXCEPT ![c] = "mask"]
          /\ frame' = [frame EXCEPT ![c].i = 1]
       \/ /\ all_resources = <<>>
          /\ pc' = [pc EXCEPT ![c] =
                        after_regs(all_resource_affected_regs, 1)]
          /\ frame' = [frame EXCEPT ![c].regs = all_resource_affected_regs,
                                    ![c].i = 1]
    /\ UNCHANGED <<is_resource_on, dynamic_enables, hw, writes, last_call,
                   cs_owner, serial, handler>>

\* recalculate_allowed_enables: the next resource of all_resources masks
\* the affected registers if it is off; after the last one
\* update_resource reprograms all_resource_affected_regs
mask(c) ==
    /\ pc[c] = "mask"
    /\ allowed_enables' =
           mask_allowed_enables(all_resources[frame[c].i], is_resource_on,
                                allowed_enables)
    /\ \/ /\ frame[c].i < Len(all_resources)
          /\ frame' = [frame EXCEPT ![c].i = @ + 1]
          /\ UNCHANGED pc
       \/ /\ frame[c].i = Len(all_resources)
          /\ frame' = [frame EXCEPT ![c].regs = all_resource_affected_regs,
                                    ![c].i = 1]
          /\ pc' = [pc EXCEPT ![c] =
                        after_regs(all_resource_affected_regs, 1)]
    /\ UNCHANGED <<is_resource_on, dynamic_enables, hw, writes, last_call,
                   cs_owner, serial, handler>>

\* the loop of enable_by_field: the next field sets or clears its bits
\* of dynamic_enables; after the last one enable_by_field reprograms the
\* unique registers of its fields
request(c) ==
    /\ pc[c] = "request"
    /\ dynamic_enables' =
           set_dynamic_enables(frame[c].en, <<frame[c].fields[frame[c].i]>>,
                               dynamic_enables)
    /\ \/ /\ frame[c].i < Len(frame[c].fields)
          /\ frame' = [frame EXCEPT ![c].i = @ + 1]
          /\ UNCHANGED pc
       \/ /\ frame[c].i = Len(frame[c].fields)
          /\ frame' = [frame EXCEPT ![c].regs =
                                        get_unique_regs(frame[c].fields),
                                    ![c].i = 1]
          /\ pc' = [pc EXCEPT ![c] =
                        after_regs(get_unique_regs(frame[c].fields), 1)]
    /\ UNCHANGED <<is_resource_on, allowed_enables, hw, writes, last_call,
                   cs_owner, serial, handler>>

\* reprogram_interrupt_enables: final_enables of the next register
compute(c) ==
    /\ pc[c] = "compute"
    /\ frame' = [frame EXCEPT ![c].final_enables =
                     BitAnd(allowed_enables[frame[c].regs[frame[c].i]],
                            dynamic_enables[frame[c].regs[frame[c].i]])]
    /\ pc' = [pc EXCEPT ![c] = "write"]
    /\ UNCHANGED <<controller_vars, writes, last_call, cs_owner, serial,
                   handler>>

\* reprogram_interrupt_enables: final_enables is written to the register
write(c) ==
    /\ pc[c] = "write"
    /\ hw' = [hw EXCEPT ![frame[c].regs[frame[c].i]] =
                            {frame[c].final_enables}]
    /\ frame' = [frame EXCEPT ![c].i = @ + 1, ![c].final_enables = 0]
    /\ pc' = [pc EXCEPT ![c] = after_regs(frame[c].regs, frame[c].i + 1)]
    /\ UNCHANGED <<is_resource_on, allowed_enables, dynamic_enables, writes,
                   last_call, cs_owner, serial, handler>>

\* the body returns: call_in_critical_section lets the next context in
\* and the call returns
exit(c) ==
    /\ pc[c] = "exit"
    /\ cs_owner' = "none"
    /\ pc' = [pc EXCEPT ![c] = "idle"]
    /\ frame' = [frame EXCEPT ![c] = NoFrame]
    /\ UNCHANGED <<controller_vars, writes, last_call, serial, handler>>

ConcNext ==
    \E c \in Contexts :
        \/ call_update_resource(c)
        \/ call_enable_by_field(c)
        \/ call_enable_by_name(c)
        \/ lookup(c)
        \/ enter(c)
        \/ set_state(c)
        \/ reset(c)
        \/ mask(c)
        \/ request(c)
        \/ compute(c)
        \/ write(c)
        \/ exit(c)

ConcSpec == Init /\ [][ConcNext]_vars

\* ------------------------------------------------ claims on the contexts
\* context c takes the step
Stepped(c) == pc'[c] # pc[c] \/ frame'[c] # frame[c]

\* context c is between the start of its mutation and the end of its
\* reprogram
InBody(c) == pc[c] \in BodyPcs

\* the controller state equals the state the calls that entered leave
\* when run one at a time
EqualsSerial ==
    /\ is_resource_on = serial.is_resource_on
    /\ allowed_enables = serial.allowed_enables
    /\ dynamic_enables = serial.dynamic_enables
    /\ hw = serial.hw

\* C11, in every state: at most one context is inside its mutation and
\* reprogram sequence, and it is the one call_in_critical_section let in
C11_OneInBody ==
    /\ \A c, d \in Contexts : InBody(c) /\ InBody(d) => c = d
    /\ \A c \in Contexts : InBody(c) <=> cs_owner = c

\* C11, in every step: while a context is inside its sequence, only its
\* own steps change the controller and the registers
C11_NoInterleaving ==
    \A c \in Contexts :
        InBody(c) /\ ~Stepped(c) => UNCHANGED controller_vars

\* C11: mutual exclusion of the mutation and reprogram sequences of
\* update_resource, enable_by_field, enable and disable
C11_MutualExclusion == []C11_OneInBody /\ [][C11_NoInterleaving]_vars

\* one context is writing a register while the other waits to enter with
\* the fields enable_by_name found
C11_Witness ==
    /\ pc["main"] = "write"
    /\ pc["isr"] = "enter"
    /\ frame["isr"].fields = <<"FX", "FU">>

\* C12: whenever no call is inside the critical section, the resource
\* states, allowed_enables, dynamic_enables and the value of every
\* register are those left by running the calls that entered one at a
\* time in their order of entry
C12_TotalOrder ==
    (\A c \in Contexts : ~InBody(c)) => EqualsSerial

\* both contexts have returned; A is off, X is requested and R1 holds 0
C12_Witness ==
    /\ \A c \in Contexts : pc[c] = "idle"
    /\ ~is_resource_on["A"]
    /\ dynamic_enables["R1"] = 1
    /\ hw["R1"] = {0}
    /\ hw["R2"] = {0}

\* C16, in every state: a call that has reached the reprogram has set
\* the resource state, recomputed allowed_enables and updated
\* dynamic_enables to what the call leaves; a call recomputing
\* allowed_enables has set the resource state
C16_MutationBeforeReprogram ==
    \A c \in Contexts :
        /\ pc[c] \in {"compute", "write", "exit"} =>
               /\ is_resource_on = serial.is_resource_on
               /\ allowed_enables = serial.allowed_enables
               /\ dynamic_enables = serial.dynamic_enables
        /\ pc[c] \in {"reset", "mask"} =>
               is_resource_on = serial.is_resource_on

\* C16, in every step: the statements before the reprogram write no
\* register, and a write gives the register the allowed_enables &
\* dynamic_enables the call leaves
C16_WritesFinalMasks ==
    \A c \in Contexts :
        /\ Stepped(c) /\ pc[c] \in {"set_state", "reset", "mask", "request"}
               => UNCHANGED hw
        /\ Stepped(c) /\ pc[c] = "write" =>
               \E reg \in {frame[c].regs[frame[c].i]} :
                   /\ hw'[reg] = {BitAnd(serial.allowed_enables[reg],
                                         serial.dynamic_enables[reg])}
                   /\ hw'[reg] = {BitAnd(allowed_enables'[reg],
                                         dynamic_enables'[reg])}

\* C16: step ordering inside update_resource and enable_by_field
C16_StepOrdering ==
    []C16_MutationBeforeReprogram /\ [][C16_WritesFinalMasks]_vars

\* update_resource has reset allowed_enables of R1 to all-ones and has
\* not yet masked it with A, which is off; X is requested and R1 holds 0
C16_Witness ==
    /\ pc["main"] = "mask"
    /\ frame["main"].i = 1
    /\ ~is_resource_on["A"]
    /\ allowed_enables["R1"] = MaxVal
    /\ dynamic_enables["R1"] = 1
    /\ hw["R1"] = {0}

\* C17, in every state: a context at a statement that reads or writes a
\* resource state, a mask or a register is inside the critical section
C17_AccessInside ==
    \A c \in Contexts : Accesses(pc[c]) # {} => cs_owner = c

\* C17, in every step: the resource states, the masks and the registers
\* change only by a step of the context inside the critical section, and
\* the lookup of enable_by_name changes none of them
C17_ChangeInside ==
    /\ controller_vars' # controller_vars =>
           \E c \in Contexts :
               /\ cs_owner = c
               /\ Stepped(c)
               /\ Accesses(pc[c]) # {}
    /\ \A c \in Contexts :
           Stepped(c) /\ pc[c] = "lookup" =>
               cs_owner # c /\ UNCHANGED controller_vars

\* C17: shared state is read and written inside the critical section
C17_Confined == []C17_AccessInside /\ [][C17_ChangeInside]_vars

\* main updates the requests of the two fields enable_by_name found,
\* inside the critical section, while isr is in its lookup
C17_Witness ==
    /\ pc["main"] = "request"
    /\ frame["main"].fields = <<"FX", "FU">>
    /\ frame["main"].i = 2
    /\ cs_owner = "main"
    /\ pc["isr"] = "lookup"

\* the statements of the body handed to call_in_critical_section
body(c) ==
    \/ set_state(c)
    \/ reset(c)
    \/ mask(c)
    \/ request(c)
    \/ compute(c)
    \/ write(c)
    \/ exit(c)

\* the calls whose completion is followed: turn_on_resource and
\* turn_off_resource of A, enable_by_field of X, enable and disable of
\* the callback of X and U
FollowedCalls ==
    \A c \in Contexts :
        /\ frame[c].resource \in {"", "A"}
        /\ Range(frame[c].fields) \subseteq {"FX", "FU"}
        /\ frame[c].fields # <<"FU">>

FairNext == ConcNext /\ FollowedCalls'

\* a context that is in a call keeps running, and the critical-section
\* primitive is fair: a context that can enter again and again does enter
FairConcSpec ==
    /\ Init
    /\ [][FairNext]_vars
    /\ \A c \in Contexts :
           /\ WF_vars(lookup(c) \/ body(c))
           /\ SF_vars(enter(c) /\ FollowedCalls')

\* C18, in every state: the context inside the critical section has a
\* statement of its body to run, no context waits to enter the critical
\* section it is in, and while a call is under way some context in a
\* call can take a step
C18_NoReentry ==
    /\ \A c \in Contexts :
           /\ cs_owner = c => ENABLED body(c)
           /\ pc[c] \in {"lookup", "enter"} => cs_owner # c
    /\ (\E c \in Contexts : pc[c] # "idle") =>
           \E c \in Contexts :
               /\ pc[c] # "idle"
               /\ ENABLED (lookup(c) \/ enter(c) \/ body(c))

\* C18, in every step: the critical section is given up only by the
\* context inside it, when its body has run to its end and the call
\* returns
C18_ReleaseAtEnd ==
    \A c \in Contexts :
        cs_owner = c /\ cs_owner' # c =>
            /\ pc[c] = "exit"
            /\ pc'[c] = "idle"
            /\ cs_owner' = "none"

\* C18: every call that enters the critical section runs to completion
\* and releases it, none enters it twice, and every invoked call returns
C18_Completion ==
    /\ []C18_NoReentry
    /\ [][C18_ReleaseAtEnd]_vars
    /\ \A c \in Contexts : (pc[c] # "idle") ~> (pc[c] = "idle")

\* isr waits to enter with the fields enable_by_name found while main is
\* about to leave the critical section
C18_Witness ==
    /\ pc["main"] = "exit"
    /\ cs_owner = "main"
    /\ pc["isr"] = "enter"
    /\ frame["isr"].fields = <<"FX", "FU">>

\* ------------------------------------------------- msg::indexed_handler
\* the number of entries of callback_entries
NumEntries == 2

\* the positions of a bitset of callbacks
EntryPositions == 0 .. NumEntries - 1

\* the bitsets of callbacks, as integers
Bitsets == 0 .. Pow2(NumEntries) - 1

\* the fields IndicesT index, in the order of the pack
MsgFields == <<"f1", "f2">>

\* the values a field of a message takes
MsgValues == {"a", "b"}

\* BaseMsgT
Messages == [Range(MsgFields) -> MsgValues]

\* the indices a handler can be built with: one index per field, its
\* field_lookup giving a bitset for each value
IndexTables ==
    {[k \in DOMAIN MsgFields |->
          [field |-> MsgFields[k], field_lookup |-> t[k]]] :
     t \in [DOMAIN MsgFields -> [MsgValues -> Bitsets]]}

\* Field::extract(data)
extract(field, data) == data[field]

\* index::operator()
index(idx, data) == idx.field_lookup[extract(idx.field, data)]

\* a handler that answers for its first index only
indices_first_only(idxs, data) == index(idxs[1], data)

\* indices::operator(): the fold (I1(data) & (I2(data) & ...))
indices(idxs, data) ==
    LET acc[i \in DOMAIN idxs] ==
            IF i = Len(idxs) THEN index(idxs[i], data)
            ELSE BitAnd(index(idxs[i], data), acc[i + 1])
    IN  acc[1]

\* bitset::none()
none(bits) == bits = 0

\* for_each over a bitset: the positions of its set bits, in ascending
\* order
for_each_bit(bits) ==
    LET acc[b \in 0 .. NumEntries] ==
            IF b = 0 THEN <<>>
            ELSE IF (bits \div Pow2(b - 1)) % 2 = 1
                 THEN Append(acc[b - 1], b - 1)
                 ELSE acc[b - 1]
    IN  acc[NumEntries]

\* indexed_handler::is_match
is_match(idxs, msg) == ~none(indices(idxs, msg))

\* indexed_handler::handle: the entries of callback_entries it invokes,
\* in order, and the number of errors it logs
handle_body(idxs, msg) ==
    LET callback_candidates == indices(idxs, msg)
    IN  [invoked |-> for_each_bit(callback_candidates),
         errors |-> IF none(callback_candidates) THEN 1 ELSE 0]

\* handle(msg) as a step
handle ==
    \E msg \in Messages :
        \E r \in {handle_body(handler.index, msg)} :
            /\ handler' = [handler EXCEPT !.msg = msg, !.op = "handle",
                                          !.invoked = r.invoked,
                                          !.errors = r.errors,
                                          !.match = FALSE]
            /\ UNCHANGED <<controller_vars, writes, last_call, context_vars>>

\* is_match(msg) as a step
is_match_call ==
    \E msg \in Messages :
        /\ handler' = [handler EXCEPT !.msg = msg, !.op = "is_match",
                                      !.invoked = <<>>, !.errors = 0,
                                      !.match = is_match(handler.index, msg)]
        /\ UNCHANGED <<controller_vars, writes, last_call, context_vars>>

\* a handler constructed with any index
MsgInit ==
    /\ ControllerInit
    /\ \E idxs \in IndexTables : handler = [NoHandler EXCEPT !.index = idxs]

MsgNext == handle \/ is_match_call

MsgSpec == MsgInit /\ [][MsgNext]_vars

\* C20: for every message the candidate set holds exactly the callbacks
\* that every index looks up for it; handle invokes each callback of the
\* set once and no other, and logs the error exactly when the set is
\* empty; is_match is true exactly when handle invokes some callback; and
\* a handler that was given a message has done so
C20_DispatchConsistency ==
    /\ \A msg \in Messages :
         \A cand \in {indices(handler.index, msg)} :
           \A r \in {handle_body(handler.index, msg)} :
             /\ \A b \in EntryPositions :
                    Bit(cand, b) = 1 <=>
                        \A k \in DOMAIN handler.index :
                            Bit(index(handler.index[k], msg), b) = 1
             /\ \A b \in EntryPositions :
                    Cardinality({j \in DOMAIN r.invoked :
                                     r.invoked[j] = b})
                        = IF Bit(cand, b) = 1 THEN 1 ELSE 0
             /\ Range(r.invoked) \subseteq EntryPositions
             /\ r.errors = (IF \E b \in EntryPositions : Bit(cand, b) = 1
                            THEN 0 ELSE 1)
             /\ is_match(handler.index, msg) <=> r.invoked # <<>>
    /\ handler.op = "handle" =>
           /\ handler.invoked = handle_body(handler.index, handler.msg).invoked
           /\ handler.errors = handle_body(handler.index, handler.msg).errors
    /\ handler.op = "is_match" =>
           handler.match =
               (handle_body(handler.index, handler.msg).invoked # <<>>)

\* handle was given a message for which the first index looks up both
\* callbacks and the second only callback 1: it invoked callback 1, once
C20_Witness ==
    /\ handler.op = "handle"
    /\ index(handler.index[1], handler.msg) = 3
    /\ index(handler.index[2], handler.msg) = 2
    /\ handler.invoked = <<1>>
    /\ handler.errors = 0

====
